---- MODULE Spec2Model ----
(***************************************************************************)
(* A model of go-simplejson (simplejson.go): the Json wrapper around a     *)
(* decoded generic JSON value, its navigation (Get, GetIndex, GetPath,     *)
(* CheckGet), its in-place mutation (Set, Delete), the type assertions and *)
(* the Must* defaulting accessors.                                         *)
(*                                                                         *)
(* Go maps are reference values: they live in `heap`, addressed by 1..NA,  *)
(* and a value of dynamic type map[string]interface{} is a reference to an *)
(* address.  *Json wrappers are objects too: `js` gives the data field of  *)
(* each wrapper object 1..NJ.  Slices are never written by the library, so *)
(* a []interface{} is modelled by the sequence of its elements.            *)
(***************************************************************************)
EXTENDS Integers, Sequences, FiniteSets

(* ------------------------------ bounds -------------------------------- *)
\* number of map objects the heap can hold
NA == 3
\* number of *Json wrapper objects alive at once
NJ == 3
\* number of method calls in a run
MaxSteps == 3
\* longest branch passed to GetPath
MaxPath == 2

\* the keys in use, in the order encoding/json writes them (sorted)
KeyOrder == <<"a", "b">>
Keys == {KeyOrder[i] : i \in 1..Len(KeyOrder)}
Addrs == 1..NA
Ptrs == 1..NJ

(* ------------------------------ values -------------------------------- *)
\* One interface{} value.  t is the dynamic type; n, s, e carry the payload:
\*   "nil"            the nil interface (JSON null)
\*   "map"            map[string]interface{}, n = heap address (0: nil map)
\*   "arr"            []interface{}, e = elements, n = 1 (n = 0: nil slice)
\*   "str"            string s
\*   "f64"            float64 of value n/2
\*   "int", "int64"   native integers of value n
\*   "bool"           n = 1 for true, 0 for false
\*   "json"           *Json, n = the wrapper object
\*   "absent"         no value: the key is not in the map / wrapper not allocated
V(t, n, s, e) == [t |-> t, n |-> n, s |-> s, e |-> e]
Nil == V("nil", 0, "", <<>>)
Absent == V("absent", 0, "", <<>>)
MapRef(a) == V("map", a, "", <<>>)
NilMap == MapRef(0)
Arr(e) == V("arr", 1, "", e)
NilArr == V("arr", 0, "", <<>>)
Str(s) == V("str", 0, s, <<>>)
F64(n) == V("f64", n, "", <<>>)
IntV(n) == V("int", n, "", <<>>)
Int64V(n) == V("int64", n, "", <<>>)
BoolV(n) == V("bool", n, "", <<>>)
JsonPtr(w) == V("json", w, "", <<>>)

EmptyMap == [k \in Keys |-> Absent]

\* heap   the map objects: heap[a][k] is the value of key k in map a
\* nmaps  how many map objects have been made
\* js     the data field of each *Json wrapper the caller holds
\* ret    the last call and what it returned
\* pre    heap and js as they were when the last call was made
\* steps  the number of calls made
VARIABLES heap, nmaps, js, ret, pre, steps
vars == <<heap, nmaps, js, ret, pre, steps>>

\* The record of the last call: its name, receiver and arguments, and what it
\* returned.  ptr is the returned *Json (0: the nil pointer), val a returned
\* typed value, n a returned integer, s a returned string, err the returned
\* error's message ("" for a nil error), ok a returned bool, panic whether the
\* call panicked instead of returning.
NoRet == [op |-> "", recv |-> 0, key |-> "", path |-> <<>>, idx |-> 0,
          args |-> <<>>, ptr |-> -1, val |-> Absent, n |-> 0, s |-> "",
          err |-> "", ok |-> FALSE, panic |-> FALSE]
Call(op, r) == [NoRet EXCEPT !.op = op, !.recv = r]

(* ------------------------- type assertions ---------------------------- *)
\* Every accessor below takes the data field of its receiver.

ErrMap == "type assertion to map[string]interface{} failed"
ErrArray == "type assertion to []interface{} failed"
ErrString == "type assertion to string failed"
ErrFloat64 == "type assertion to float64 failed"
ErrInt == "type assertion to int failed"
ErrInt64 == "type assertion to int64 failed"
ErrNull == "data is null"

\* func (j *Json) Map() (map[string]interface{}, error)
Map(d) == IF d.t = "map" THEN [val |-> d, err |-> ""]
          ELSE [val |-> NilMap, err |-> ErrMap]

\* func (j *Json) Array() ([]interface{}, error)
Array(d) == IF d.t = "arr" THEN [val |-> d, err |-> ""]
            ELSE [val |-> NilArr, err |-> ErrArray]

\* func (j *Json) String() (string, error)
String(d) == IF d.t = "str" THEN [val |-> d, err |-> ""]
             ELSE [val |-> Str(""), err |-> ErrString]

\* func (j *Json) Float64() (float64, error)
Float64(d) == IF d.t = "f64" THEN [val |-> d, err |-> ""]
              ELSE [val |-> F64(-2), err |-> ErrFloat64]

\* Go's float64 -> integer conversion: the fraction is discarded (toward zero).
Trunc(n) == IF n >= 0 THEN n \div 2 ELSE -((-n) \div 2)

\* func (j *Json) Int() (int, error)   (Int names the integers in TLA+)
ToInt(d) == CASE d.t = "f64" -> [val |-> IntV(Trunc(d.n)), err |-> ""]
              [] d.t = "int" -> [val |-> IntV(d.n), err |-> ""]
              [] d.t = "int64" -> [val |-> IntV(d.n), err |-> ""]
              [] OTHER -> [val |-> IntV(-1), err |-> ErrInt]

\* func (j *Json) Int64() (int64, error)
Int64(d) == CASE d.t = "f64" -> [val |-> Int64V(Trunc(d.n)), err |-> ""]
              [] d.t = "int" -> [val |-> Int64V(d.n), err |-> ""]
              [] d.t = "int64" -> [val |-> Int64V(d.n), err |-> ""]
              [] OTHER -> [val |-> Int64V(-1), err |-> ErrInt64]

\* The map a reference denotes; the nil map reads as the empty map.
Deref(h, m) == IF m.n = 0 THEN EmptyMap ELSE h[m.n]
\* len(m)
MapLen(h, m) == Cardinality({k \in Keys : Deref(h, m)[k].t # "absent"})

\* IsNull taking an empty slice for null too
IsNullEmptyArr(h, d) ==
    \/ d.t = "nil"
    \/ d.t = "arr" /\ Len(d.e) = 0
    \/ Map(d).err = "" /\ MapLen(h, Map(d).val) = 0

\* func (j *Json) IsNull() bool
IsNull(h, d) ==
    \/ d.t = "nil"
    \/ Map(d).err = "" /\ MapLen(h, Map(d).val) = 0

\* func (j *Json) Count() (int, error)
Count(h, d) == IF Map(d).err # "" THEN [n |-> -1, err |-> Map(d).err]
               ELSE [n |-> MapLen(h, Map(d).val), err |-> ""]

(* ---------------------------- navigation ------------------------------ *)
\* The data of the wrapper each navigation returns; Absent stands for the nil
\* *Json pointer.

\* Get as it would be with CheckGet's failure result: the nil pointer
GetNilOnMiss(h, d, key) ==
    IF Map(d).err = "" /\ Deref(h, Map(d).val)[key].t # "absent"
    THEN Deref(h, Map(d).val)[key]
    ELSE Absent

\* func (j *Json) Get(key string) *Json
Get(h, d, key) ==
    IF Map(d).err = "" /\ Deref(h, Map(d).val)[key].t # "absent"
    THEN Deref(h, Map(d).val)[key]
    ELSE Nil

\* CheckGet as it would be if a nil value counted as a missing key
CheckGetNilIsMissing(h, d, key) ==
    IF Map(d).err = "" /\ Deref(h, Map(d).val)[key].t \notin {"absent", "nil"}
    THEN [val |-> Deref(h, Map(d).val)[key], ok |-> TRUE]
    ELSE [val |-> Absent, ok |-> FALSE]

\* func (j *Json) CheckGet(key string) (*Json, bool)
CheckGet(h, d, key) ==
    IF Map(d).err = "" /\ Deref(h, Map(d).val)[key].t # "absent"
    THEN [val |-> Deref(h, Map(d).val)[key], ok |-> TRUE]
    ELSE [val |-> Absent, ok |-> FALSE]

\* GetPath as it would be if a missing key ended the loop with jin, the last
\* value found, instead of a null wrapper
RECURSIVE GetPathLastFound(_, _, _)
GetPathLastFound(h, d, branch) ==
    IF branch = <<>> THEN d
    ELSE IF Map(d).err # "" THEN Nil
    ELSE IF Deref(h, Map(d).val)[Head(branch)].t # "absent"
         THEN GetPathLastFound(h, Deref(h, Map(d).val)[Head(branch)], Tail(branch))
         ELSE d

\* func (j *Json) GetPath(branch ...string) *Json
\* The loop over branch; with an empty branch jin is still the receiver.
RECURSIVE GetPath(_, _, _)
GetPath(h, d, branch) ==
    IF branch = <<>> THEN d
    ELSE IF Map(d).err # "" THEN Nil
    ELSE IF Deref(h, Map(d).val)[Head(branch)].t # "absent"
         THEN GetPath(h, Deref(h, Map(d).val)[Head(branch)], Tail(branch))
         ELSE Nil

\* func (j *Json) GetIndex(index int) *Json
\* a[index] with a negative index is a run-time panic (index out of range).
GetIndex(d, index) ==
    IF Array(d).err = "" /\ Len(Array(d).val.e) > index
    THEN IF index >= 0
         THEN [val |-> Array(d).val.e[index + 1], panic |-> FALSE]
         ELSE [val |-> Absent, panic |-> TRUE]
    ELSE [val |-> Nil, panic |-> FALSE]

(* ----------------------------- mutation ------------------------------- *)
\* Set without its type switch: the *Json itself is stored
UnwrapNothing(val) == val

\* The type switch of Set: a *Json argument is replaced by its data field.
Unwrap(val) == IF val.t = "json" THEN js[val.n] ELSE val

\* Set without the early return on Map's error: m is then the nil map
SetNoErrCheck(h, d, key, val) ==
    IF Map(d).val.n = 0 THEN [heap |-> h, panic |-> TRUE]
    ELSE [heap |-> [h EXCEPT ![Map(d).val.n] = [@ EXCEPT ![key] = Unwrap(val)]],
          panic |-> FALSE]
\* Set writing to a copy of the map instead of the map the tree holds
SetOnCopy(h, d, key, val) == [heap |-> h, panic |-> FALSE]

\* func (j *Json) Set(key string, val interface{}): the heap after the call.
\* Assigning to an entry of the nil map is a run-time panic.
Set(h, d, key, val) ==
    IF Map(d).err # "" THEN [heap |-> h, panic |-> FALSE]
    ELSE IF Map(d).val.n = 0 THEN [heap |-> h, panic |-> TRUE]
    ELSE [heap |-> [h EXCEPT ![Map(d).val.n] = [@ EXCEPT ![key] = Unwrap(val)]],
          panic |-> FALSE]

\* Delete emptying the map when the key is found
DeleteAll(h, d, key) ==
    IF Map(d).err = "" /\ Deref(h, Map(d).val)[key].t # "absent"
    THEN [h EXCEPT ![Map(d).val.n] = EmptyMap]
    ELSE h

\* func (j *Json) Delete(key string) *Json: the heap after the call
Delete(h, d, key) ==
    IF Map(d).err = "" /\ Deref(h, Map(d).val)[key].t # "absent"
    THEN [h EXCEPT ![Map(d).val.n] = [@ EXCEPT ![key] = Absent]]
    ELSE h

(* --------------------------- serialization ---------------------------- *)
\* encoding/json as MarshalJSON uses it: json.Marshal(&j.data).
Digits == <<"0", "1", "2", "3", "4", "5", "6", "7", "8", "9">>
RECURSIVE NatToStr(_)
NatToStr(n) == IF n < 10 THEN Digits[n + 1]
               ELSE NatToStr(n \div 10) \o Digits[(n % 10) + 1]
IntToStr(n) == IF n < 0 THEN "-" \o NatToStr(-n) ELSE NatToStr(n)
\* a float64 of value n/2, in the shortest form that reads back
FloatToStr(n) ==
    IF n % 2 = 0 THEN IntToStr(Trunc(n))
    ELSE (IF n < 0 THEN "-" ELSE "") \o NatToStr(Trunc(IF n < 0 THEN -n ELSE n)) \o ".5"

ErrCycle == "json: unsupported value: encountered a cycle"

\* The encoding of value v, or an error; seen holds the maps being encoded
\* around v, and meeting one of them again is a cycle.
RECURSIVE Enc(_, _, _)
RECURSIVE EncElems(_, _, _, _)
RECURSIVE EncEntries(_, _, _, _, _)
\* elements e[i..] of a slice, comma-separated
EncElems(h, e, i, seen) ==
    IF i > Len(e) THEN [s |-> "", err |-> ""]
    ELSE LET x == Enc(h, e[i], seen)
             rest == EncElems(h, e, i + 1, seen)
         IN IF x.err # "" THEN x
            ELSE IF rest.err # "" THEN rest
            ELSE [s |-> x.s \o (IF i < Len(e) THEN "," ELSE "") \o rest.s,
                  err |-> ""]
\* entries KeyOrder[i..] of map m, comma-separated; first: nothing written yet
EncEntries(h, m, i, first, seen) ==
    IF i > Len(KeyOrder) THEN [s |-> "", err |-> ""]
    ELSE IF m[KeyOrder[i]].t = "absent" THEN EncEntries(h, m, i + 1, first, seen)
    ELSE LET x == Enc(h, m[KeyOrder[i]], seen)
             rest == EncEntries(h, m, i + 1, FALSE, seen)
         IN IF x.err # "" THEN x
            ELSE IF rest.err # "" THEN rest
            ELSE [s |-> (IF first THEN "" ELSE ",") \o "\"" \o KeyOrder[i]
                        \o "\":" \o x.s \o rest.s,
                  err |-> ""]
Enc(h, v, seen) ==
    CASE v.t = "nil" -> [s |-> "null", err |-> ""]
      [] v.t = "bool" -> [s |-> IF v.n = 1 THEN "true" ELSE "false", err |-> ""]
      [] v.t = "str" -> [s |-> "\"" \o v.s \o "\"", err |-> ""]
      [] v.t = "f64" -> [s |-> FloatToStr(v.n), err |-> ""]
      [] v.t \in {"int", "int64"} -> [s |-> IntToStr(v.n), err |-> ""]
      [] v.t = "arr" ->
           IF v.n = 0 THEN [s |-> "null", err |-> ""]
           ELSE LET x == EncElems(h, v.e, 1, seen)
                IN IF x.err # "" THEN x
                   ELSE [s |-> "[" \o x.s \o "]", err |-> ""]
      [] v.t = "map" ->
           IF v.n = 0 THEN [s |-> "null", err |-> ""]
           ELSE IF v.n \in seen THEN [s |-> "", err |-> ErrCycle]
           ELSE LET x == EncEntries(h, h[v.n], 1, TRUE, seen \cup {v.n})
                IN IF x.err # "" THEN x
                   ELSE [s |-> "{" \o x.s \o "}", err |-> ""]

\* func (j *Json) MarshalJSON() ([]byte, error)
MarshalJSON(h, d) == Enc(h, d, {})

\* func (j *Json) ToString() (string, error)
ToString(h, d) ==
    IF IsNull(h, d) THEN [s |-> "", err |-> ErrNull]
    ELSE MarshalJSON(h, d)

(* --------------------------- Must* family ----------------------------- *)
\* args is the variadic argument list.  More than one argument: log.Panicf.

\* func (j *Json) MustArray(args ...[]interface{}) []interface{}
MustArray(d, args) ==
    IF Len(args) > 1 THEN [val |-> Absent, panic |-> TRUE]
    ELSE IF Array(d).err = "" THEN [val |-> Array(d).val, panic |-> FALSE]
    ELSE [val |-> IF Len(args) = 1 THEN args[1] ELSE NilArr, panic |-> FALSE]

\* func (j *Json) MustMap(args ...map[string]interface{}) map[string]interface{}
MustMap(d, args) ==
    IF Len(args) > 1 THEN [val |-> Absent, panic |-> TRUE]
    ELSE IF Map(d).err = "" THEN [val |-> Map(d).val, panic |-> FALSE]
    ELSE [val |-> IF Len(args) = 1 THEN args[1] ELSE NilMap, panic |-> FALSE]

\* func (j *Json) MustString(args ...string) string
MustString(d, args) ==
    IF Len(args) > 1 THEN [val |-> Absent, panic |-> TRUE]
    ELSE IF String(d).err = "" THEN [val |-> String(d).val, panic |-> FALSE]
    ELSE [val |-> IF Len(args) = 1 THEN args[1] ELSE Str(""), panic |-> FALSE]

\* MustInt returning what Int returned, error or not
MustIntRaw(d, args) ==
    IF Len(args) > 1 THEN [val |-> Absent, panic |-> TRUE]
    ELSE [val |-> ToInt(d).val, panic |-> FALSE]

\* func (j *Json) MustInt(args ...int) int
MustInt(d, args) ==
    IF Len(args) > 1 THEN [val |-> Absent, panic |-> TRUE]
    ELSE IF ToInt(d).err = "" THEN [val |-> ToInt(d).val, panic |-> FALSE]
    ELSE [val |-> IF Len(args) = 1 THEN args[1] ELSE IntV(0), panic |-> FALSE]

\* func (j *Json) MustInt64(args ...int64) int64
MustInt64(d, args) ==
    IF Len(args) > 1 THEN [val |-> Absent, panic |-> TRUE]
    ELSE IF Int64(d).err = "" THEN [val |-> Int64(d).val, panic |-> FALSE]
    ELSE [val |-> IF Len(args) = 1 THEN args[1] ELSE Int64V(0), panic |-> FALSE]

\* func (j *Json) MustFloat64(args ...float64) float64
MustFloat64(d, args) ==
    IF Len(args) > 1 THEN [val |-> Absent, panic |-> TRUE]
    ELSE IF Float64(d).err = "" THEN [val |-> Float64(d).val, panic |-> FALSE]
    ELSE [val |-> IF Len(args) = 1 THEN args[1] ELSE F64(0), panic |-> FALSE]

(* ------------------------------ the state ----------------------------- *)
\* NewJson(body): the wrapper and the maps that decoding body produces, for
\*   {"a": {"b": [1, 2, 3]}}     {}     {"a": null, "b": {}}
\*   [{"a": "hi"}, -1.5]         "hi"   {"a": [], "b": ""}
HeapOf(m1, m2) == [a \in Addrs |-> IF a = 1 THEN m1 ELSE IF a = 2 THEN m2 ELSE EmptyMap]
Entry(k, v) == [EmptyMap EXCEPT ![k] = v]
Docs ==
    { [heap |-> HeapOf(Entry("a", MapRef(2)),
                       Entry("b", Arr(<<F64(2), F64(4), F64(6)>>))),
       nmaps |-> 2, data |-> MapRef(1)],
      [heap |-> HeapOf(EmptyMap, EmptyMap), nmaps |-> 1, data |-> MapRef(1)],
      [heap |-> HeapOf([EmptyMap EXCEPT !["a"] = Nil, !["b"] = MapRef(2)], EmptyMap),
       nmaps |-> 2, data |-> MapRef(1)],
      [heap |-> HeapOf(Entry("a", Str("hi")), EmptyMap),
       nmaps |-> 1, data |-> Arr(<<MapRef(1), F64(-3)>>)],
      [heap |-> HeapOf(EmptyMap, EmptyMap), nmaps |-> 0, data |-> Str("hi")],
      [heap |-> HeapOf([EmptyMap EXCEPT !["a"] = Arr(<<>>), !["b"] = Str("")], EmptyMap),
       nmaps |-> 1, data |-> MapRef(1)] }

Init ==
    \E doc \in Docs :
        /\ heap = doc.heap
        /\ nmaps = doc.nmaps
        /\ js = [p \in Ptrs |-> IF p = 1 THEN doc.data ELSE Absent]
        /\ ret = NoRet
        /\ pre = [heap |-> doc.heap,
                  js |-> [p \in Ptrs |-> IF p = 1 THEN doc.data ELSE Absent]]
        /\ steps = 0

\* the wrappers the caller holds
Live == {p \in Ptrs : js[p].t # "absent"}
\* where a wrapper made by a call on r is allocated: the lowest free object,
\* or, when none is free, the place of a wrapper the caller has dropped (not
\* the root, not the receiver)
Free == {p \in Ptrs : js[p].t = "absent"}
NewAt(r) == IF Free # {} THEN {CHOOSE p \in Free : \A q \in Free : p <= q}
            ELSE Ptrs \ {1, r}

\* the branches passed to GetPath
Branches == UNION {[1..n -> Keys] : n \in 0..MaxPath}
\* the argument lists passed to a Must* method: none, one default, too many
MustArgs(S) == {<<>>} \cup {<<x>> : x \in S} \cup {<<x, x>> : x \in S}
\* the indices tried on a slice
Indices == {-1, 0, 1, 3}
\* the values the caller stores with SetData and with Set
DataVals == {Nil, Str(""), IntV(7), Int64V(-7), BoolV(1), Arr(<<>>), F64(-3), F64(5)}
SetVals == {Nil, F64(-3)}

\* every call: one more step, from the state as it is now
Tick ==
    /\ steps < MaxSteps
    /\ steps' = steps + 1
    /\ pre' = [heap |-> heap, js |-> js]

\* a call returning a *Json with data d, made at p: the nil pointer (0) when
\* d is Absent
Returned(c, p, d) ==
    IF d.t = "absent"
    THEN /\ ret' = [c EXCEPT !.ptr = 0]
         /\ UNCHANGED js
    ELSE /\ ret' = [c EXCEPT !.ptr = p]
         /\ js' = [js EXCEPT ![p] = d]

(* ------------------------------ the calls ----------------------------- *)
DoSetData(r, v) ==
    /\ Tick
    /\ js' = [js EXCEPT ![r] = v]
    /\ ret' = [Call("SetData", r) EXCEPT !.args = <<v>>, !.ptr = r]
    /\ UNCHANGED <<heap, nmaps>>

DoGetData(r) ==
    /\ Tick
    /\ ret' = [Call("GetData", r) EXCEPT !.val = js[r]]
    /\ UNCHANGED <<heap, nmaps, js>>

DoCount(r) ==
    /\ Tick
    /\ ret' = [Call("Count", r) EXCEPT !.n = Count(heap, js[r]).n,
                                       !.err = Count(heap, js[r]).err]
    /\ UNCHANGED <<heap, nmaps, js>>

DoIsNull(r) ==
    /\ Tick
    /\ ret' = [Call("IsNull", r) EXCEPT !.ok = IsNull(heap, js[r])]
    /\ UNCHANGED <<heap, nmaps, js>>

\* Encoding a cyclic value: encoding/json reports the cycle as an error; the
\* releases of Go without that check recurse until the stack overflows.
DoToString(r) ==
    /\ Tick
    /\ \/ ret' = [Call("ToString", r) EXCEPT !.s = ToString(heap, js[r]).s,
                                              !.err = ToString(heap, js[r]).err]
       \/ /\ ToString(heap, js[r]).err = ErrCycle
          /\ ret' = [Call("ToString", r) EXCEPT !.panic = TRUE]
    /\ UNCHANGED <<heap, nmaps, js>>

DoEncode(r) ==
    /\ Tick
    /\ \/ ret' = [Call("Encode", r) EXCEPT !.s = MarshalJSON(heap, js[r]).s,
                                            !.err = MarshalJSON(heap, js[r]).err]
       \/ /\ MarshalJSON(heap, js[r]).err = ErrCycle
          /\ ret' = [Call("Encode", r) EXCEPT !.panic = TRUE]
    /\ UNCHANGED <<heap, nmaps, js>>

\* val is a plain value or a *Json the caller holds
DoSet(r, k, val) ==
    /\ Tick
    /\ heap' = Set(heap, js[r], k, val).heap
    /\ ret' = [Call("Set", r) EXCEPT !.key = k, !.args = <<val>>,
                                     !.panic = Set(heap, js[r], k, val).panic]
    /\ UNCHANGED <<nmaps, js>>

\* val is a map the caller has just made: map[string]interface{}{}
DoSetNewMap(r, k) ==
    /\ Tick
    /\ nmaps < NA
    /\ nmaps' = nmaps + 1
    /\ heap' = Set(heap, js[r], k, MapRef(nmaps + 1)).heap
    /\ ret' = [Call("Set", r) EXCEPT !.key = k, !.args = <<MapRef(nmaps + 1)>>,
                   !.panic = Set(heap, js[r], k, MapRef(nmaps + 1)).panic]
    /\ UNCHANGED js

DoGet(r, k, p) ==
    /\ Tick
    /\ Returned([Call("Get", r) EXCEPT !.key = k], p, Get(heap, js[r], k))
    /\ UNCHANGED <<heap, nmaps>>

DoDelete(r, k) ==
    /\ Tick
    /\ heap' = Delete(heap, js[r], k)
    /\ ret' = [Call("Delete", r) EXCEPT !.key = k, !.ptr = r]
    /\ UNCHANGED <<nmaps, js>>

\* with an empty branch the receiver itself is returned, else a new wrapper
DoGetPath(r, branch, p) ==
    /\ Tick
    /\ IF branch = <<>>
       THEN /\ ret' = [Call("GetPath", r) EXCEPT !.path = branch, !.ptr = r]
            /\ UNCHANGED js
       ELSE Returned([Call("GetPath", r) EXCEPT !.path = branch], p,
                     GetPath(heap, js[r], branch))
    /\ UNCHANGED <<heap, nmaps>>

DoGetIndex(r, index, p) ==
    /\ Tick
    /\ IF GetIndex(js[r], index).panic
       THEN /\ ret' = [Call("GetIndex", r) EXCEPT !.idx = index, !.panic = TRUE]
            /\ UNCHANGED js
       ELSE Returned([Call("GetIndex", r) EXCEPT !.idx = index], p,
                     GetIndex(js[r], index).val)
    /\ UNCHANGED <<heap, nmaps>>

DoCheckGet(r, k, p) ==
    /\ Tick
    /\ Returned([Call("CheckGet", r) EXCEPT !.key = k,
                                            !.ok = CheckGet(heap, js[r], k).ok],
                p, CheckGet(heap, js[r], k).val)
    /\ UNCHANGED <<heap, nmaps>>

\* Map, Array, String, Int, Int64, Float64: res is the accessor's result
Asserted(name, r, res) ==
    /\ Tick
    /\ ret' = [Call(name, r) EXCEPT !.val = res.val, !.err = res.err]
    /\ UNCHANGED <<heap, nmaps, js>>
DoMap(r) == Asserted("Map", r, Map(js[r]))
DoArray(r) == Asserted("Array", r, Array(js[r]))
DoString(r) == Asserted("String", r, String(js[r]))
DoInt(r) == Asserted("Int", r, ToInt(js[r]))
DoInt64(r) == Asserted("Int64", r, Int64(js[r]))
DoFloat64(r) == Asserted("Float64", r, Float64(js[r]))

\* the Must* family: res is the accessor's result
Musted(name, r, args, res) ==
    /\ Tick
    /\ ret' = [Call(name, r) EXCEPT !.args = args, !.val = res.val,
                                    !.panic = res.panic]
    /\ UNCHANGED <<heap, nmaps, js>>
DoMustArray(r, args) == Musted("MustArray", r, args, MustArray(js[r], args))
DoMustMap(r, args) == Musted("MustMap", r, args, MustMap(js[r], args))
DoMustString(r, args) == Musted("MustString", r, args, MustString(js[r], args))
DoMustInt(r, args) == Musted("MustInt", r, args, MustInt(js[r], args))
DoMustInt64(r, args) == Musted("MustInt64", r, args, MustInt64(js[r], args))
DoMustFloat64(r, args) == Musted("MustFloat64", r, args, MustFloat64(js[r], args))

\* navigation, mutation and inspection of one tree through the wrappers
Next ==
    \/ \E r \in Live, v \in SetVals : DoSetData(r, v)
    \/ \E r \in Live : DoCount(r)
    \/ \E r \in Live : DoIsNull(r)
    \/ \E r \in Live : DoToString(r)
    \/ \E r \in Live, k \in Keys, val \in SetVals \cup {JsonPtr(w) : w \in Live} :
          DoSet(r, k, val)
    \/ \E r \in Live, k \in Keys : DoSetNewMap(r, k)
    \/ \E r \in Live, k \in Keys : \E p \in NewAt(r) : DoGet(r, k, p)
    \/ \E r \in Live, k \in Keys : DoDelete(r, k)
    \/ \E r \in Live, branch \in Branches : \E p \in NewAt(r) :
          DoGetPath(r, branch, p)
    \/ \E r \in Live, index \in Indices : \E p \in NewAt(r) : DoGetIndex(r, index, p)
    \/ \E r \in Live, k \in Keys : \E p \in NewAt(r) : DoCheckGet(r, k, p)

Spec == Init /\ [][Next]_vars

\* the type assertions and the Must* family, on every kind of held value
NextMust ==
    \/ \E r \in Live, v \in DataVals : DoSetData(r, v)
    \/ \E r \in Live : DoGetData(r)
    \/ \E r \in Live : DoEncode(r)
    \/ \E r \in Live : DoMap(r)
    \/ \E r \in Live : DoArray(r)
    \/ \E r \in Live : DoString(r)
    \/ \E r \in Live : DoInt(r)
    \/ \E r \in Live : DoInt64(r)
    \/ \E r \in Live : DoFloat64(r)
    \/ \E r \in Live, args \in MustArgs({Arr(<<Str("d")>>)}) : DoMustArray(r, args)
    \/ \E r \in Live, args \in MustArgs({MapRef(a) : a \in 1..nmaps}) : DoMustMap(r, args)
    \/ \E r \in Live, args \in MustArgs({Str("default")}) : DoMustString(r, args)
    \/ \E r \in Live, args \in MustArgs({IntV(42)}) : DoMustInt(r, args)
    \/ \E r \in Live, args \in MustArgs({Int64V(42)}) : DoMustInt64(r, args)
    \/ \E r \in Live, args \in MustArgs({F64(3)}) : DoMustFloat64(r, args)

SpecMust == Init /\ [][NextMust]_vars

(* ------------------------------ the claims ---------------------------- *)
\* the receiver's data when the last call was made
RecvData == pre.js[ret.recv]
\* whether value d, in heap h, is a map holding key k
HasKey(h, d, k) == d.t = "map" /\ d.n # 0 /\ h[d.n][k].t # "absent"
\* Get applied along a branch, key after key
RECURSIVE FoldGet(_, _, _)
FoldGet(h, d, branch) ==
    IF branch = <<>> THEN d
    ELSE FoldGet(h, Get(h, d, Head(branch)), Tail(branch))

\* C1: GetIndex never fails: it returns a wrapper of the element when the held
\* value is a sequence and 0 <= index < length, and a null wrapper in every
\* other case, a negative index included; it never panics.
C1_GetIndexNeverFails ==
    ret.op = "GetIndex" =>
        /\ ~ret.panic
        /\ ret.ptr \in Ptrs
        /\ IF RecvData.t = "arr" /\ 0 <= ret.idx /\ ret.idx < Len(RecvData.e)
           THEN js[ret.ptr] = RecvData.e[ret.idx + 1]
           ELSE js[ret.ptr] = Nil

\* C4: GetPath(k1..kn) returns a wrapper holding what Get(k1), ..., Get(kn)
\* applied in turn give; with n = 0 it returns the receiver itself; once a
\* value on the way is no mapping or lacks the next key the result is null.
C4_GetPathIsFoldOfGet ==
    ret.op = "GetPath" =>
        /\ ~ret.panic
        /\ ret.ptr \in Ptrs
        /\ js[ret.ptr] = FoldGet(pre.heap, RecvData, ret.path)
        /\ ret.path = <<>> => ret.ptr = ret.recv /\ js = pre.js
        /\ ret.path # <<>> => ret.ptr # ret.recv
        /\ (\E i \in 1..Len(ret.path) :
               ~HasKey(pre.heap, FoldGet(pre.heap, RecvData, SubSeq(ret.path, 1, i - 1)),
                       ret.path[i]))
             => js[ret.ptr] = Nil /\ IsNull(heap, js[ret.ptr])
\* a two-key path that ends on a value, and one that stops at the first key
C4_Witness ==
    /\ ret.op = "GetPath"
    /\ ret.path = <<"a", "b">>
    /\ js[ret.ptr] = Arr(<<F64(2), F64(4), F64(6)>>)
C4_WitnessMissing ==
    /\ ret.op = "GetPath"
    /\ Len(ret.path) = 2
    /\ RecvData.t = "map"
    /\ ~HasKey(pre.heap, RecvData, ret.path[1])
    /\ HasKey(pre.heap, RecvData, ret.path[2])
    /\ js[ret.ptr] = Nil

\* C5: Get never fails: it returns a non-nil wrapper, of the entry's value
\* when the held value is a mapping with the key and null-ish otherwise, so a
\* chain Get(a).Get(b).Get(c) can always be made and ends null-ish whenever a
\* link is absent or no mapping.
C5_GetNeverFails ==
    /\ ret.op = "Get" =>
          /\ ~ret.panic
          /\ ret.ptr \in Ptrs
          /\ js[ret.ptr].t # "absent"
          /\ IF HasKey(pre.heap, RecvData, ret.key)
             THEN js[ret.ptr] = pre.heap[RecvData.n][ret.key]
             ELSE js[ret.ptr] = Nil /\ IsNull(heap, js[ret.ptr])
    /\ \A w \in Live : \A a \in Keys, b \in Keys, c \in Keys :
          LET v1 == Get(heap, js[w], a)
              v2 == Get(heap, v1, b)
              v3 == Get(heap, v2, c)
          IN /\ v1.t # "absent" /\ v2.t # "absent" /\ v3.t # "absent"
             /\ (~HasKey(heap, js[w], a) \/ ~HasKey(heap, v1, b) \/ ~HasKey(heap, v2, c))
                  => IsNull(heap, v3)
\* a Get on the null wrapper an earlier Get returned
C5_Witness ==
    /\ ret.op = "Get"
    /\ ret.recv # 1
    /\ RecvData = Nil
    /\ ret.ptr \in Ptrs
    /\ js[ret.ptr] = Nil

\* the value Set is to store: its argument, or the data of the *Json it is
SetArg == IF ret.args[1].t = "json" THEN pre.js[ret.args[1].n] ELSE ret.args[1]
\* null-ish as the data model defines it: null, or a mapping of no entries
NullIsh(h, d) ==
    \/ d.t = "nil"
    \/ d.t = "map" /\ \A k \in Keys : Deref(h, d)[k].t = "absent"

\* C2 as stated: on a mapping, CheckGet reports false exactly when Get's
\* wrapper is null-ish, the one exception being a key present with a null
\* value, where CheckGet returns (wrapper of null, true) and Get is null-ish.
C2_OnlyNullException ==
    (ret.op = "CheckGet" /\ RecvData.t = "map") =>
        LET g == Get(pre.heap, RecvData, ret.key)
        IN IF HasKey(pre.heap, RecvData, ret.key) /\ pre.heap[RecvData.n][ret.key] = Nil
           THEN ret.ok /\ ret.ptr \in Ptrs /\ js[ret.ptr] = Nil /\ IsNull(pre.heap, g)
           ELSE (~ret.ok) <=> IsNull(pre.heap, g)

\* C2 as amended: on a mapping, CheckGet reports false exactly when Get's
\* wrapper is null-ish, except for a key present with a null value or with a
\* mapping of no entries, where CheckGet returns (wrapper of the value, true)
\* and Get is null-ish; CheckGet's wrapper is the nil pointer when it
\* reports false.
C2_NullOrEmptyMapException ==
    (ret.op = "CheckGet" /\ RecvData.t = "map") =>
        LET g == Get(pre.heap, RecvData, ret.key)
            e == pre.heap[RecvData.n][ret.key]
        IN /\ ~ret.panic
           /\ ~ret.ok => ret.ptr = 0
           /\ IF HasKey(pre.heap, RecvData, ret.key) /\ NullIsh(pre.heap, e)
              THEN ret.ok /\ ret.ptr \in Ptrs /\ js[ret.ptr] = e /\ IsNull(pre.heap, g)
              ELSE (~ret.ok) <=> IsNull(pre.heap, g)
\* CheckGet finds a key whose value is a mapping of no entries
C2_Witness ==
    /\ ret.op = "CheckGet"
    /\ RecvData.t = "map"
    /\ ret.ok
    /\ js[ret.ptr].t = "map"
    /\ IsNull(heap, Get(heap, RecvData, ret.key))

C3_WitnessInsert ==
    /\ ret.op = "Set"
    /\ RecvData.t = "map"
    /\ ~HasKey(pre.heap, RecvData, ret.key)
    /\ Get(heap, js[ret.recv], ret.key) = F64(-3)

\* C6: on a receiver that holds no mapping, Set and Delete change neither
\* the receiver nor the tree and do not panic; Delete returns the receiver.
C6_NonMappingNoOp ==
    (ret.op \in {"Set", "Delete"} /\ RecvData.t # "map") =>
        /\ ~ret.panic
        /\ heap = pre.heap
        /\ js = pre.js
        /\ ret.op = "Delete" => ret.ptr = ret.recv
\* Set on a wrapper that holds a slice
C6_Witness ==
    /\ ret.op = "Set"
    /\ RecvData.t = "arr"
    /\ heap = pre.heap
\* Delete on a wrapper that holds a string
C6_WitnessDelete ==
    /\ ret.op = "Delete"
    /\ RecvData.t = "str"
    /\ ret.ptr = ret.recv

\* C8 as stated: IsNull is true exactly for null and for a mapping of no
\* entries (not for an empty sequence or an empty string); ToString fails
\* with the null-data error exactly where IsNull is true and otherwise
\* returns the encoded value.
C8_ToStringEncodesOtherwise ==
    /\ ret.op = "IsNull" => (ret.ok <=> NullIsh(pre.heap, RecvData))
    /\ ret.op = "ToString" =>
          IF NullIsh(pre.heap, RecvData)
          THEN ~ret.panic /\ ret.err = ErrNull
          ELSE /\ ~ret.panic
               /\ ret.err = ""
               /\ ret.s = MarshalJSON(pre.heap, RecvData).s

\* C8 as amended: IsNull is true exactly for null and for a mapping of no
\* entries (not for an empty sequence or an empty string); ToString fails
\* with the null-data error exactly where IsNull is true, and otherwise
\* returns what encoding gives: the encoded value, or the encoder's failure
\* when the value cannot be encoded (a tree that Set has made cyclic).
C8_ToStringEncodesUnlessCyclic ==
    /\ ret.op = "IsNull" => (ret.ok <=> NullIsh(pre.heap, RecvData))
    /\ ret.op = "IsNull" /\ RecvData \in {Arr(<<>>), Str("")} => ~ret.ok
    /\ ret.op = "ToString" =>
          /\ (~ret.panic /\ ret.err = ErrNull) <=> NullIsh(pre.heap, RecvData)
          /\ ~NullIsh(pre.heap, RecvData) =>
                IF MarshalJSON(pre.heap, RecvData).err = ""
                THEN /\ ~ret.panic
                     /\ ret.err = ""
                     /\ ret.s = MarshalJSON(pre.heap, RecvData).s
                ELSE ret.panic \/ ret.err = MarshalJSON(pre.heap, RecvData).err
\* ToString on a mapping that holds itself
C8_Witness ==
    /\ ret.op = "ToString"
    /\ ~NullIsh(pre.heap, RecvData)
    /\ ret.err = ErrCycle
\* ToString on a decoded document, and IsNull on an empty sequence
C8_WitnessEncoded ==
    /\ ret.op = "ToString"
    /\ ret.s = "{\"a\":{\"b\":[1,2,3]}}"
C8_WitnessEmptyArr ==
    /\ ret.op = "IsNull"
    /\ RecvData = Arr(<<>>)
    /\ ~ret.ok

\* C9: on a mapping, Delete(key) removes key if present, so that CheckGet
\* then reports false and Get is null-ish; it leaves every other key and
\* value as it was, changes nothing when key is absent, lowers Count by
\* one exactly when key was present, and returns the receiver itself.
C9_DeleteRemovesOnlyKey ==
    (ret.op = "Delete" /\ RecvData.t = "map") =>
        /\ ~ret.panic
        /\ ret.ptr = ret.recv
        /\ js = pre.js
        /\ ~CheckGet(heap, js[ret.recv], ret.key).ok
        /\ IsNull(heap, Get(heap, js[ret.recv], ret.key))
        /\ \A k \in Keys \ {ret.key} : heap[RecvData.n][k] = pre.heap[RecvData.n][k]
        /\ \A a \in Addrs \ {RecvData.n} : heap[a] = pre.heap[a]
        /\ ~HasKey(pre.heap, RecvData, ret.key) => heap = pre.heap
        /\ Count(heap, js[ret.recv]).err = ""
        /\ Count(heap, js[ret.recv]).n =
             Count(pre.heap, RecvData).n
               - (IF HasKey(pre.heap, RecvData, ret.key) THEN 1 ELSE 0)
\* a key is deleted from a mapping that holds another key too
C9_Witness ==
    /\ ret.op = "Delete"
    /\ RecvData.t = "map"
    /\ HasKey(pre.heap, RecvData, ret.key)
    /\ Count(heap, js[ret.recv]).n = 1

\* C10: Get, GetIndex, GetPath and CheckGet change neither the receiver nor
\* the tree, and the wrapper they return shares the sub-value: a Set or a
\* Delete through a wrapper of a nested mapping is seen on every path that
\* leads from any wrapper to that mapping.
C10_NavigationShares ==
    /\ ret.op \in {"Get", "GetIndex", "GetPath", "CheckGet"} =>
          /\ heap = pre.heap
          /\ js[ret.recv] = RecvData
          /\ \A w \in Ptrs \ {ret.ptr} : js[w] = pre.js[w]
    /\ ret.op = "Get" /\ HasKey(pre.heap, RecvData, ret.key) =>
          js[ret.ptr] = pre.heap[RecvData.n][ret.key]
    /\ (ret.op \in {"Set", "Delete"} /\ RecvData.t = "map") =>
          \A w \in Live : \A branch \in Branches :
              GetPath(heap, js[w], branch) = RecvData =>
                  IF ret.op = "Set"
                  THEN GetPath(heap, js[w], branch \o <<ret.key>>) = SetArg
                  ELSE ~CheckGet(heap, GetPath(heap, js[w], branch), ret.key).ok
\* a Set through the wrapper Get returned shows under the root
C10_Witness ==
    /\ ret.op = "Set"
    /\ ret.recv # 1
    /\ RecvData.t = "map"
    /\ js[1].t = "map"
    /\ js[1] # RecvData
    /\ \E k \in Keys :
          /\ Get(pre.heap, js[1], k) = RecvData
          /\ GetPath(pre.heap, js[1], <<k, ret.key>>) # F64(-3)
          /\ GetPath(heap, js[1], <<k, ret.key>>) = F64(-3)

\* C7: a Must* accessor called with no or one default returns what its
\* fallible accessor returns when that succeeds, else the default, else the
\* zero value of the type; called with more defaults it panics and returns
\* nothing.
MustOps == {"MustArray", "MustMap", "MustString", "MustInt", "MustInt64", "MustFloat64"}
Accessor(op, d) ==
    CASE op = "MustArray" -> Array(d)
      [] op = "MustMap" -> Map(d)
      [] op = "MustString" -> String(d)
      [] op = "MustInt" -> ToInt(d)
      [] op = "MustInt64" -> Int64(d)
      [] op = "MustFloat64" -> Float64(d)
ZeroValue(op) ==
    CASE op = "MustArray" -> NilArr
      [] op = "MustMap" -> NilMap
      [] op = "MustString" -> Str("")
      [] op = "MustInt" -> IntV(0)
      [] op = "MustInt64" -> Int64V(0)
      [] op = "MustFloat64" -> F64(0)
C7_MustDefaults ==
    ret.op \in MustOps =>
        /\ heap = pre.heap /\ js = pre.js
        /\ IF Len(ret.args) > 1
           THEN ret.panic /\ ret.val = Absent
           ELSE /\ ~ret.panic
                /\ ret.val = IF Accessor(ret.op, RecvData).err = ""
                             THEN Accessor(ret.op, RecvData).val
                             ELSE IF Len(ret.args) = 1 THEN ret.args[1]
                             ELSE ZeroValue(ret.op)
        /\ (ret.op = "MustInt" /\ RecvData.t \notin {"f64", "int", "int64"}) =>
              /\ ret.args = <<>> => ret.val = IntV(0)
              /\ ret.args = <<IntV(42)>> => ret.val = IntV(42)
\* MustInt(42) on a string
C7_Witness ==
    /\ ret.op = "MustInt"
    /\ RecvData = Str("hi")
    /\ ret.args = <<IntV(42)>>
    /\ ret.val = IntV(42)
\* MustInt() on -1.5, and MustString with two defaults
C7_WitnessTrunc ==
    /\ ret.op = "MustInt"
    /\ RecvData = F64(-3)
    /\ ret.val = IntV(-1)
C7_WitnessPanic ==
    /\ ret.op = "MustString"
    /\ Len(ret.args) = 2
    /\ ret.panic

====
